---- MODULE Spec2Model ----
(***************************************************************************)
(* Pool lifecycle engine of browser-cmgr (src/src/BrowserManager/index.ts) *)
(* together with the getBrowser / freeBrowser request handlers.            *)
(*                                                                         *)
(* Node.js runs one callback at a time; a handler is interrupted only at   *)
(* an await of real I/O (a docker command, a sleep, an HTTP call).  Each   *)
(* action below is one such uninterrupted segment.  The handlers are       *)
(* written as operators from a state record to a state record, so that a   *)
(* handler calling another one (socket.disconnect() running the            *)
(* 'disconnect' listener, killBrowser calling connectToBrowser) is plain   *)
(* composition.                                                            *)
(*                                                                         *)
(* The environment: the container runtime (cont), the agents and their     *)
(* sockets, the clients sending requests, the operator sending a signal,   *)
(* and the clock.  Time is counted in minutes, the unit of a lease;        *)
(* commands, the 2 s waits and socket events take less than a minute.      *)
(***************************************************************************)
EXTENDS Integers, FiniteSets, Sequences, Bags, TLC

\* ---------------------------------------------------------------- sizes
\* Config.numBrowsers and Config.maxRetries.
NumBrowsers == 2
MaxRetries == 2
\* Longest lease a request asks for, in minutes.
MaxLease == 2
\* Last minute of the clock.
MaxNow == 2
\* Requests, signals, container deaths and command faults in one run.
MaxEvents == 2
\* Sockets a slot may hold besides one.
MaxLeak == 1

Names == 0 .. (NumBrowsers - 1)
LeaseTimes == 1 .. MaxLease
SessionIDs == {"s1", "s2"}
\* The optional request fields; "" stands for a field the request leaves out.
Optional(clientID, callbackURL) ==
    [clientID |-> clientID, callbackURL |-> callbackURL, fingerprintID |-> "f",
     reportKey |-> "k", sessionUUID |-> "u"]

\* The request without a fingerprintID.
WithoutFingerprint(opt) == [opt EXCEPT !.fingerprintID = ""]

Optionals == {Optional("c", "w"), Optional("", "w")}

\* The id an agent reports in node:setState; one per slot.
IdOf(n) == n + 100
Ids == {IdOf(n) : n \in Names}
NoId == -1

VARIABLES
    manageOnly,   \* process.env.MANAGE_ONLY
    isKilling,    \* _isKilling
    browsers,     \* _browsers: name -> Browser
    timeoutObjs,  \* _timeoutObjs: name -> the handle stored last
    orphans,      \* pending timer handles no longer stored in _timeoutObjs
    sockets,      \* _sockets: name -> state of the stored socket
    leaked,       \* sockets with listeners attached, no longer in _sockets
    cont,         \* the runtime: is a container of that name running
    xvfb,         \* the runtime: XVFB_RESOLUTION of that container
    recreate,     \* pending 2 s re-creation callbacks per slot
    kills,        \* killBrowser calls suspended at an await
    inits,        \* initContainer calls suspended at an await
    reqs,         \* request handlers suspended at an await
    initPc,       \* position of init()
    killAllPc,    \* position of killAllExisting()
    now,          \* Date.now(), in minutes
    events,       \* requests, signals and faults the environment has sent
    ret           \* what the call that just finished returned

vars == <<manageOnly, isKilling, browsers, timeoutObjs, orphans, sockets,
          leaked, cont, xvfb, recreate, kills, inits, reqs, initPc, killAllPc,
          now, events, ret>>

\* The body of a POST to a webhook; sent = FALSE when there was none.
NoPost ==
    [sent |-> FALSE, url |-> "", clientID |-> "", sessionUUID |-> "",
     sessionData |-> "", isError |-> FALSE, reportKey |-> ""]

\* op: the call or callback, slot: the slot it was about, res: its outcome,
\* by: for killBrowser, who called it, post: the webhook POST it sent.
NoRet == [op |-> "none", slot |-> -1, res |-> "none", by |-> "none", post |-> NoPost]

Cur ==
    [manageOnly |-> manageOnly, isKilling |-> isKilling, browsers |-> browsers,
     timeoutObjs |-> timeoutObjs, orphans |-> orphans, sockets |-> sockets,
     leaked |-> leaked, cont |-> cont, xvfb |-> xvfb, recreate |-> recreate,
     kills |-> kills,
     inits |-> inits, reqs |-> reqs, initPc |-> initPc, killAllPc |-> killAllPc,
     now |-> now, events |-> events, ret |-> NoRet]

Set(S) ==
    /\ manageOnly' = S.manageOnly
    /\ isKilling' = S.isKilling
    /\ browsers' = S.browsers
    /\ timeoutObjs' = S.timeoutObjs
    /\ orphans' = S.orphans
    /\ sockets' = S.sockets
    /\ leaked' = S.leaked
    /\ cont' = S.cont
    /\ xvfb' = S.xvfb
    /\ recreate' = S.recreate
    /\ kills' = S.kills
    /\ inits' = S.inits
    /\ reqs' = S.reqs
    /\ initPc' = S.initPc
    /\ killAllPc' = S.killAllPc
    /\ now' = S.now
    /\ events' = S.events
    /\ ret' = S.ret

Returned(S, op, n, res) ==
    [S EXCEPT !.ret = [op |-> op, slot |-> n, res |-> res, by |-> "none",
                       post |-> NoPost]]

One(x) == SetToBag({x})

\* ------------------------------------------------------------ the record
EmptyLabels == [k \in {} |-> NoId]

\* BASE_BROWSER_PORT, BASE_BROWSER_APP_PORT, BASE_BROWSER_VNC_PORT.
BaseBrowserPort == 10222
BaseBrowserAppPort == 7070
BaseBrowserVncPort == 15900

Ports(i) ==
    [vnc |-> BaseBrowserVncPort + i, app |-> BaseBrowserAppPort + i,
     browser |-> BaseBrowserPort + i]

NewBrowser(i, t) ==
    [index |-> i, ports |-> Ports(i),
     isUp |-> FALSE, isRemoving |-> FALSE, lastUsed |-> -1,
     createdAt |-> t, leaseTime |-> -1, labels |-> EmptyLabels,
     webhook |-> "", sessionID |-> "", clientID |-> "", fingerprintID |-> "",
     sessionUUID |-> "", reportKey |-> ""]

SetLabel(labels, k, v) ==
    [x \in (DOMAIN labels) \cup {k} |-> IF x = k THEN v ELSE labels[x]]

HasId(b, id) == "id" \in DOMAIN b.labels /\ b.labels["id"] = id

\* ------------------------------------------------------------ the timers
NoTimer == [armed |-> FALSE, due |-> 0]

\* A resetTimeout that leaves the timer scheduled.
resetTimeoutKeeps(S, n) == S

resetTimeout(S, n) ==
    IF S.timeoutObjs[n].armed THEN [S EXCEPT !.timeoutObjs[n] = NoTimer] ELSE S

setTimeout(S, n, t) ==
    LET old == S.timeoutObjs[n] IN
    [S EXCEPT !.browsers[n].lastUsed = S.now,
              !.orphans[n] = IF old.armed THEN @ (+) One(old.due) ELSE @,
              !.timeoutObjs[n] = [armed |-> TRUE, due |-> S.now + t]]

\* ------------------------------------------------------- resolutions
\* SCREEN_RESOLUTION, and the one a caller of
\* reInitContainerWithCustomResolution asks for.
DefaultResolution == "1280x2400"
CustomResolution == "1920x1080"
NoResolution == ""

\* ----------------------------------------------------------- Agent Link
\* A socket is "connecting" (created, or reconnecting after a drop),
\* "connected", or "dropped": its transport is gone and its 'disconnect'
\* event is still to be delivered (until then the client holds it for
\* connected).  sockets[n] is the state of the socket _sockets holds for n,
\* "none" without one; leaked[n] counts, per state, the sockets that were
\* overwritten in _sockets: nothing closes them, they keep their listeners
\* and keep reconnecting.
disconnectHandler(S, n) ==
    LET S1 == resetTimeout(S, n)
        S2 == [S1 EXCEPT !.browsers[n].isUp = FALSE]
    IN  IF ~S2.isKilling /\ ~S2.manageOnly
        THEN [S2 EXCEPT !.recreate[n] = @ + 1]
        ELSE S2

setStateHandler(S, n) ==
    IF n \notin DOMAIN S.browsers THEN S
    ELSE [S EXCEPT !.browsers[n].labels =
                        SetLabel(SetLabel(@, "id", IdOf(n)), "ip", IdOf(n)),
                   !.browsers[n].isUp = TRUE]

\* The names an agent gives its labels and parameters.  "__proto__" is the
\* one name a JavaScript object does not keep as a property of its own.
LabelNames == {"id", "__proto__"}

\* labels[k] = v on the plain object labels, v a number or a string: the
\* assignment to "__proto__" reaches the setter of Object.prototype, which
\* ignores a value that is neither an object nor null.
PutLabel(labels, k, v) ==
    IF k = "__proto__" THEN labels ELSE SetLabel(labels, k, v)

\* Reading labels[k]: NoId stands for anything that is not a label value
\* (undefined, or Object.prototype for "__proto__").
GetLabel(labels, k) == IF k \in DOMAIN labels THEN labels[k] ELSE NoId

\* The node:setLabel branch of the event listener.
setLabelHandler(S, n, labelName, labelValue) ==
    IF n \notin DOMAIN S.browsers THEN S
    ELSE [S EXCEPT !.browsers[n].labels = PutLabel(@, labelName, labelValue)]

\* The node:setParam branch of the event listener.
setParamHandler(S, n, param, value) ==
    IF n \notin DOMAIN S.browsers THEN S
    ELSE [S EXCEPT !.browsers[n].labels = PutLabel(@, param, value)]

\* An event whose name matches no branch of the event listener.
unknownHandler(S, n) ==
    IF n \notin DOMAIN S.browsers THEN S
    ELSE Returned(S, "node:unknown", n, "none")

\* A node:deleted branch that reports the event's sessionData whether or
\* not the slot has a fingerprintID.
deletedHandlerAlwaysData(S, n, isError) ==
    IF n \notin DOMAIN S.browsers THEN S
    ELSE LET b == S.browsers[n]
         IN  IF /\ b.sessionID # "" /\ b.clientID # ""
                /\ b.webhook # "" /\ b.reportKey # "" /\ b.sessionUUID # ""
             THEN [Returned(S, "node:deleted", n, "post") EXCEPT !.ret.post =
                      [sent |-> TRUE, url |-> b.webhook, clientID |-> b.clientID,
                       sessionUUID |-> b.sessionUUID, sessionData |-> "data",
                       isError |-> isError, reportKey |-> b.reportKey]]
             ELSE Returned(S, "node:deleted", n, "none")

\* The node:deleted branch of the event listener.
deletedHandler(S, n, isError) ==
    IF n \notin DOMAIN S.browsers THEN S
    ELSE LET b == S.browsers[n]
             sessionData == IF b.fingerprintID # "" THEN "data" ELSE ""
         IN  IF /\ b.sessionID # "" /\ b.clientID # ""
                /\ b.webhook # "" /\ b.reportKey # "" /\ b.sessionUUID # ""
             THEN [Returned(S, "node:deleted", n, "post") EXCEPT !.ret.post =
                      [sent |-> TRUE, url |-> b.webhook, clientID |-> b.clientID,
                       sessionUUID |-> b.sessionUUID, sessionData |-> sessionData,
                       isError |-> isError, reportKey |-> b.reportKey]]
             ELSE Returned(S, "node:deleted", n, "none")

NoLeak == [connecting |-> 0, connected |-> 0, dropped |-> 0]

LiveSockets(S, n) ==
    S.leaked[n].connecting + S.leaked[n].connected + S.leaked[n].dropped
        + (IF S.sockets[n] = "none" THEN 0 ELSE 1)

\* The new socket overwrites the stored one, which is neither closed nor
\* stripped of its listeners.
connectToBrowser(S, n) ==
    [S EXCEPT !.leaked[n] = IF S.sockets[n] # "none"
                            THEN [@ EXCEPT ![S.sockets[n]] = @ + 1] ELSE @,
              !.sockets[n] = "connecting"]

\* socket.disconnect() of the stored socket, then delete: the client emits
\* 'disconnect' itself when it holds the socket for connected.
socketCleanup(S, n) ==
    IF S.sockets[n] = "none" THEN S
    ELSE [(IF S.sockets[n] \in {"connected", "dropped"}
           THEN disconnectHandler(S, n) ELSE S) EXCEPT !.sockets[n] = "none"]

\* The process behind a name ends (and, with `running`, is started again by
\* the runtime): every socket connected to it loses its transport.
ContainerEnds(S, n, running) ==
    [S EXCEPT !.cont[n] = running,
              !.xvfb[n] = IF running THEN @ ELSE NoResolution,
              !.sockets[n] = IF @ = "connected" THEN "dropped" ELSE @,
              !.leaked[n] = [@ EXCEPT !.connected = 0,
                                      !.dropped = @ + S.leaked[n].connected]]

\* ------------------------------------------------------------------ Init
Init ==
    /\ manageOnly \in BOOLEAN
    /\ isKilling = FALSE
    /\ browsers = [n \in {} |-> NewBrowser(0, 0)]
    /\ timeoutObjs = [n \in Names |-> NoTimer]
    /\ orphans = [n \in Names |-> EmptyBag]
    /\ sockets = [n \in Names |-> "none"]
    /\ leaked = [n \in Names |-> NoLeak]
    /\ cont = [n \in Names |-> manageOnly]
    /\ xvfb = [n \in Names |-> IF manageOnly THEN DefaultResolution ELSE NoResolution]
    /\ recreate = [n \in Names |-> 0]
    /\ kills = EmptyBag
    /\ inits = EmptyBag
    /\ reqs = EmptyBag
    /\ initPc = [st |-> "probe", i |-> 0]
    /\ killAllPc = "idle"
    /\ now = 0
    /\ events = 0
    /\ ret = NoRet

\* --------------------------------------------------------- initContainer
InitTask(n, attempts, pc, crash, caller) ==
    [name |-> n, attempts |-> attempts, pc |-> pc, crash |-> crash, caller |-> caller]

\* initContainer up to its first await: the run command is issued.
initContainerCall(S, n, crash, caller) ==
    [S EXCEPT !.inits = @ (+) One(InitTask(n, 0, "run", crash, caller))]

\* init(): the slot record, then `docker kill name`.
initSlot(S, i) ==
    [S EXCEPT !.browsers = [n \in (DOMAIN @) \cup {i} |->
                               IF n = i THEN NewBrowser(i, S.now) ELSE @[n]],
              !.initPc = [st |-> "kill", i |-> i]]

\* The resolution argument of the call.
resolutionOf(task) ==
    IF task.caller = "reinit" THEN CustomResolution ELSE DefaultResolution

\* What the caller of initContainer does when the call returns or throws.
initContainerReturn(S, task, thrown) ==
    CASE task.caller = "init" ->
           IF thrown THEN [S EXCEPT !.initPc = [st |-> "failed", i |-> task.name]]
           ELSE IF task.name + 1 < NumBrowsers THEN initSlot(S, task.name + 1)
           ELSE [S EXCEPT !.initPc = [st |-> "done", i |-> task.name]]
      [] task.caller = "reinit" ->
           Returned(S, "reInitContainerWithCustomResolution", task.name,
                    IF thrown THEN "raised" ELSE "ok")
      [] OTHER -> S

\* A retry loop that allows one attempt more than maxRetries.
initContainerResumeOnceMore(S, task, ok) ==
    LET n == task.name
        S0 == [S EXCEPT !.inits = @ (-) One(task)]
    IN  IF ok
        THEN initContainerReturn(
                 connectToBrowser([S0 EXCEPT !.cont[n] = TRUE,
                                             !.xvfb[n] = resolutionOf(task)], n),
                 task, FALSE)
        ELSE IF task.attempts + 1 = MaxRetries + 1
             THEN IF task.crash
                  THEN initContainerReturn(S0, task, TRUE)
                  ELSE initContainerReturn(connectToBrowser(S0, n), task, FALSE)
             ELSE [S0 EXCEPT !.inits = @ (+) One([task EXCEPT !.attempts = @ + 1, !.pc = "wait"])]

\* The run command has ended: the loop's body after the await.
initContainerResume(S, task, ok) ==
    LET n == task.name
        S0 == [S EXCEPT !.inits = @ (-) One(task)]
    IN  IF ok
        THEN initContainerReturn(
                 connectToBrowser([S0 EXCEPT !.cont[n] = TRUE,
                                             !.xvfb[n] = resolutionOf(task)], n),
                 task, FALSE)
        ELSE IF task.attempts + 1 = MaxRetries
             THEN IF task.crash
                  THEN initContainerReturn(S0, task, TRUE)
                  ELSE initContainerReturn(connectToBrowser(S0, n), task, FALSE)
             ELSE [S0 EXCEPT !.inits = @ (+) One([task EXCEPT !.attempts = @ + 1, !.pc = "wait"])]

\* ----------------------------------------------------------- killBrowser
KillTask(n, tryNum, pc, res, caller) ==
    [name |-> n, tryNum |-> tryNum, pc |-> pc, res |-> res, caller |-> caller]

\* killBrowser up to its first await: isRemoving, the timer, then the stop
\* (or restart) command is issued.  Callers pass names of existing slots.
killBrowserCall(S, n, tryNum, caller) ==
    LET S1 == IF tryNum = 0 THEN [S EXCEPT !.browsers[n].isRemoving = TRUE] ELSE S
        S2 == resetTimeout(S1, n)
    IN  [S2 EXCEPT !.kills = @ (+) One(KillTask(n, tryNum, "cmd", "none", caller))]

ClearedFields(b) ==
    [b EXCEPT !.isUp = FALSE, !.isRemoving = FALSE, !.lastUsed = -1,
              !.leaseTime = -1, !.labels = EmptyLabels, !.webhook = "",
              !.sessionID = "", !.clientID = "", !.fingerprintID = "",
              !.sessionUUID = "", !.reportKey = ""]

\* After the command succeeded: the socket, then the record.
killFinish(S, n) ==
    LET S1 == socketCleanup(S, n) IN
    IF S1.manageOnly
    THEN [S1 EXCEPT !.browsers[n] = ClearedFields(@)]
    ELSE [S1 EXCEPT !.browsers[n] = [ClearedFields(@) EXCEPT !.createdAt = S1.now]]

\* What the caller of killBrowser does when the call returns or throws.
killBrowserReturn(S, task, res) ==
    LET n == task.name
        S1 == CASE task.caller = "killAll" ->
                     IF res = "raised" THEN [S EXCEPT !.killAllPc = "failed"]
                     ELSE IF n + 1 \in DOMAIN S.browsers
                          THEN killBrowserCall(S, n + 1, 0, "killAll")
                          ELSE [S EXCEPT !.killAllPc = "done"]
                [] task.caller = "reinit" /\ res # "raised" ->
                     initContainerCall(S, n, TRUE, "reinit")
                [] OTHER -> S
    IN  [Returned(S1, "killBrowser", n, res) EXCEPT !.ret.by = task.caller]

\* A catch block that retries once more than maxRetries allows.
killBrowserResumeOnceMore(S, task) ==
    LET n == task.name
        S0 == [S EXCEPT !.kills = @ (-) One(task)]
    IN  CASE task.res = "ok" ->
               IF S.manageOnly
               THEN [S0 EXCEPT !.kills = @ (+) One([task EXCEPT !.pc = "wait2"])]
               ELSE killBrowserReturn(killFinish(S0, n), task, "ok")
          [] task.res = "nosuch" -> killBrowserReturn(S0, task, "ok")
          [] OTHER ->
               IF task.tryNum <= MaxRetries
               THEN [S0 EXCEPT !.kills = @ (+) One([task EXCEPT !.pc = "retry"])]
               ELSE killBrowserReturn(S0, task, "raised")

\* The command has ended: the rest of the try block, or the catch block.
killBrowserResume(S, task) ==
    LET n == task.name
        S0 == [S EXCEPT !.kills = @ (-) One(task)]
    IN  CASE task.res = "ok" ->
               IF S.manageOnly
               THEN [S0 EXCEPT !.kills = @ (+) One([task EXCEPT !.pc = "wait2"])]
               ELSE killBrowserReturn(killFinish(S0, n), task, "ok")
          [] task.res = "nosuch" -> killBrowserReturn(S0, task, "ok")
          [] OTHER ->
               IF task.tryNum < MaxRetries
               THEN [S0 EXCEPT !.kills = @ (+) One([task EXCEPT !.pc = "retry"])]
               ELSE killBrowserReturn(S0, task, "raised")

\* What `docker stop` / `docker restart` does to the runtime, and the result
\* the suspended call will see.
killCmdExec(S, task, res) ==
    LET S0 == [S EXCEPT !.kills = (@ (-) One(task))
                            (+) One([task EXCEPT !.pc = "resume", !.res = res])]
    IN  IF res = "ok" THEN ContainerEnds(S0, task.name, S0.manageOnly) ELSE S0

\* MANAGE_ONLY: the 2 s wait is over; reconnect, then the common cleanup.
killWait2(S, task) ==
    LET n == task.name
        S0 == [S EXCEPT !.kills = @ (-) One(task)]
    IN  killBrowserReturn(killFinish(connectToBrowser(S0, n), n), task, "ok")

\* ---------------------------------------------------------------- init()
\* The number of `info` probes init makes before it gives up.
DockerCheckAttempts == 50

\* Without the test of dockerRunning in the loop condition: the probing
\* goes on after a probe has answered.
dockerInfoKeepsProbing(S, ok) ==
    LET attempts == S.initPc.i
    IN  IF attempts + 1 < DockerCheckAttempts
        THEN Returned([S EXCEPT !.initPc.i = attempts + 1], "info", -1,
                      IF ok THEN "ok" ELSE "failed")
        ELSE Returned([S EXCEPT !.initPc = [st |-> "unavailable",
                                            i |-> attempts + 1]],
                      "info", -1, "raised")

\* One turn of init's loop around `docker info`: the probe answers (ok) or
\* fails or times out; initPc.i is dockerCheckAttempts.  After the last
\* failure the loop ends and init throws.
dockerInfo(S, ok) ==
    LET attempts == S.initPc.i
    IN  IF ok
        THEN Returned([S EXCEPT !.initPc = [st |-> "begin", i |-> 0]],
                      "info", -1, "ok")
        ELSE IF attempts + 1 < DockerCheckAttempts
        THEN Returned([S EXCEPT !.initPc.i = attempts + 1], "info", -1, "failed")
        ELSE Returned([S EXCEPT !.initPc = [st |-> "unavailable",
                                            i |-> attempts + 1]],
                      "info", -1, "raised")

InitProbe(ok) ==
    /\ initPc.st = "probe" /\ initPc.i < DockerCheckAttempts
    /\ Set(dockerInfo(Cur, ok))

InitBegin ==
    /\ initPc.st = "begin"
    /\ Set(IF manageOnly THEN [Cur EXCEPT !.initPc = [st |-> "discover", i |-> 0]]
           ELSE initSlot(Cur, 0))

\* The digits a container name ends in: none, or the port of the last slot.
NoSuffix == -1
Suffixes == {NoSuffix, BaseBrowserPort + NumBrowsers - 1}

\* initManageMode: the index of the i-th listed name (i from 0).
calculatedIndex(suffix, i) ==
    LET port == IF suffix # NoSuffix THEN suffix ELSE BaseBrowserPort + i
        index == port - BaseBrowserPort
    IN  IF index >= 0 THEN index ELSE i

\* initManageMode: every listed container, up to numBrowsers of them, gets a
\* record and a socket.  listing is the output of `docker ps`, suffix[n] the
\* digits the name of container n ends in.
discover(S, listing, suffix) ==
    LET RECURSIVE adopt(_, _)
        adopt(T, i) ==
            IF i >= Len(listing) \/ i >= NumBrowsers THEN T
            ELSE LET n == listing[i + 1]
                     b == NewBrowser(calculatedIndex(suffix[n], i), T.now)
                     T1 == [T EXCEPT !.browsers =
                               [x \in (DOMAIN @) \cup {n} |-> IF x = n THEN b ELSE @[x]]]
                 IN  adopt(connectToBrowser(T1, n), i + 1)
    IN  [adopt(S, 0) EXCEPT !.initPc = [st |-> "done", i |-> 0]]

\* What `docker ps` lists: the running containers, here in the order of
\* their names.
Listings ==
    {l \in UNION {[1 .. k -> Names] : k \in 0 .. NumBrowsers} :
        /\ \A i, j \in DOMAIN l : i < j => l[i] < l[j]
        /\ {l[i] : i \in DOMAIN l} = {n \in Names : cont[n]}}

InitDiscover(listing, suffix) ==
    /\ initPc.st = "discover"
    /\ Set(discover(Cur, listing, suffix))

InitKillDone ==
    /\ initPc.st = "kill"
    /\ LET i == initPc.i
           S1 == ContainerEnds(Cur, i, FALSE)
       IN  Set(initContainerCall([S1 EXCEPT !.initPc = [st |-> "create", i |-> i]],
                                 i, TRUE, "init"))

\* Every call of connectToBrowser opens a socket; a slot holds at most
\* MaxLeak + 1 of them.
CanConnect(n) == LiveSockets(Cur, n) <= MaxLeak

RunDone(task, ok) ==
    /\ task.pc = "run"
    /\ CanConnect(task.name)
    /\ ok => ~cont[task.name]
    /\ (~ok /\ ~cont[task.name]) => events < MaxEvents
    /\ Set(initContainerResume([Cur EXCEPT !.events = IF ~ok /\ ~cont[task.name] THEN @ + 1 ELSE @],
                               task, ok))

RunRetry(task) ==
    /\ task.pc = "wait"
    /\ Set([Cur EXCEPT !.inits = (@ (-) One(task)) (+) One([task EXCEPT !.pc = "run"])])

RecreateFire(n) ==
    /\ recreate[n] > 0
    /\ Set(initContainerCall([Cur EXCEPT !.recreate[n] = @ - 1], n, FALSE, "recreate"))

\* ---------------------------------------------------- sockets and agents
\* which: "stored" for the socket in _sockets, "leaked" for an overwritten one.
SockIn(S, n, which, st) ==
    IF which = "stored" THEN S.sockets[n] = st ELSE S.leaked[n][st] > 0

SockMove(S, n, which, from, to) ==
    IF which = "stored" THEN [S EXCEPT !.sockets[n] = to]
    ELSE [S EXCEPT !.leaked[n] = [@ EXCEPT ![from] = @ - 1, ![to] = S.leaked[n][to] + 1]]

\* A connect handler that marks the slot up.
SocketConnectSetsUp(n, which) ==
    /\ SockIn(Cur, n, which, "connecting")
    /\ cont[n]
    /\ LET S1 == SockMove(Cur, n, which, "connecting", "connected")
       IN  Set(IF n \in DOMAIN S1.browsers
               THEN [S1 EXCEPT !.browsers[n].isUp = TRUE] ELSE S1)

\* The 'connect' handler: it only logs.
SocketConnect(n, which) ==
    /\ SockIn(Cur, n, which, "connecting")
    /\ cont[n]
    /\ Set(SockMove(Cur, n, which, "connecting", "connected"))

SocketDisconnect(n, which) ==
    /\ SockIn(Cur, n, which, "dropped")
    /\ Set(disconnectHandler(SockMove(Cur, n, which, "dropped", "connecting"), n))

AgentSetState(n, which) ==
    /\ SockIn(Cur, n, which, "connected")
    /\ Set(setStateHandler(Cur, n))

\* The agent sets a label or a parameter of its slot.
AgentSetLabel(n, which, labelName, labelValue) ==
    /\ SockIn(Cur, n, which, "connected")
    /\ events < MaxEvents
    /\ Set([setLabelHandler(Cur, n, labelName, labelValue) EXCEPT !.events = @ + 1])

AgentSetParam(n, which, param, value) ==
    /\ SockIn(Cur, n, which, "connected")
    /\ events < MaxEvents
    /\ Set([setParamHandler(Cur, n, param, value) EXCEPT !.events = @ + 1])

\* The agent sends an event the listener has no branch for.
AgentUnknown(n, which) ==
    /\ SockIn(Cur, n, which, "connected")
    /\ events < MaxEvents
    /\ Set([unknownHandler(Cur, n) EXCEPT !.events = @ + 1])

\* The agent reports the end of its browser session.  An agent has a
\* session to end only on a slot a session was launched on.
AgentDeleted(n, which, isError) ==
    /\ SockIn(Cur, n, which, "connected")
    /\ browsers[n].sessionID # ""
    /\ Set(deletedHandler(Cur, n, isError))

\* A container dies on its own.  Under MANAGE_ONLY the runtime's restart
\* policy brings it back under the same name.
ContainerDies(n) ==
    /\ cont[n]
    /\ events < MaxEvents
    /\ Set(ContainerEnds([Cur EXCEPT !.events = @ + 1], n, manageOnly))

\* A minute passes.  Commands, sleeps of seconds and HTTP calls end within
\* the minute they began in, and a due timer fires before the next minute.
\* The clock is only advanced while some timer is pending.
Tick ==
    /\ now < MaxNow
    /\ \E n \in Names : timeoutObjs[n].armed \/ orphans[n] # EmptyBag
    /\ kills = EmptyBag /\ inits = EmptyBag /\ reqs = EmptyBag
    /\ \A n \in Names :
          /\ recreate[n] = 0
          /\ sockets[n] # "dropped" /\ leaked[n].dropped = 0
          /\ cont[n] => sockets[n] # "connecting" /\ leaked[n].connecting = 0
          /\ timeoutObjs[n].armed => timeoutObjs[n].due > now
          /\ \A d \in BagToSet(orphans[n]) : d > now
    /\ Set([Cur EXCEPT !.now = @ + 1])

\* The command runs: it fails with "no such container" exactly when no
\* container of that name is running; any other failure is a fault.
KillCmdExec(task, res) ==
    /\ task.pc = "cmd"
    /\ IF cont[task.name] THEN res \in {"ok", "err"} ELSE res = "nosuch"
    /\ res = "err" => events < MaxEvents
    /\ Set(killCmdExec([Cur EXCEPT !.events = IF res = "err" THEN @ + 1 ELSE @],
                       task, res))

KillResume(task) ==
    /\ task.pc = "resume"
    /\ Set(killBrowserResume(Cur, task))

KillWait2(task) ==
    /\ task.pc = "wait2"
    /\ CanConnect(task.name)
    /\ Set(killWait2(Cur, task))

KillRetry(task) ==
    /\ task.pc = "retry"
    /\ Set(killBrowserCall([Cur EXCEPT !.kills = @ (-) One(task)],
                           task.name, task.tryNum + 1, task.caller))

\* --------------------------------------------------------- lease timers
TimerFire(n) ==
    /\ timeoutObjs[n].armed
    /\ timeoutObjs[n].due <= now
    /\ Set(Returned(killBrowserCall([Cur EXCEPT !.timeoutObjs[n] = NoTimer], n, 0, "timer"),
                    "timer", n, "stored"))

OrphanFire(n, d) ==
    /\ BagIn(d, orphans[n])
    /\ d <= now
    /\ Set(Returned(killBrowserCall([Cur EXCEPT !.orphans[n] = @ (-) One(d)], n, 0, "timer"),
                    "timer", n, "orphan"))

\* ------------------------------------------------------ killAllExisting
KillAllStart ==
    /\ initPc.st = "done"
    /\ killAllPc = "idle"
    /\ events < MaxEvents
    /\ LET S1 == [Cur EXCEPT !.isKilling = TRUE, !.events = @ + 1] IN
       Set(IF DOMAIN browsers = {}
           THEN [S1 EXCEPT !.killAllPc = "done"]
           ELSE killBrowserCall([S1 EXCEPT !.killAllPc = "running"],
                                CHOOSE x \in DOMAIN browsers : \A y \in DOMAIN browsers : x <= y,
                                0, "killAll"))

\* ------------------------------- reInitContainerWithCustomResolution
\* Up to the first await: killBrowser(name, 0).  The rest of it runs when
\* that call returns (killBrowserReturn) and when initContainer does.
ReInit(n) ==
    /\ initPc.st = "done" /\ killAllPc # "done"
    /\ events < MaxEvents
    /\ n \in DOMAIN browsers
    /\ Set(killBrowserCall([Cur EXCEPT !.events = @ + 1], n, 0, "reinit"))

\* ------------------------------------------------------- reserveBrowser
NoName == -1

First(set) == IF set = {} THEN NoName ELSE CHOOSE x \in set : \A y \in set : x <= y

AvailableWithoutIsUp(b) == b.leaseTime = -1

AvailableWithoutLease(b) == b.isUp

\* The predicate of the find() in reserveBrowser.
Available(b) == b.isUp /\ b.leaseTime = -1

reserveBrowser(S, t) ==
    LET n == First({x \in DOMAIN S.browsers : Available(S.browsers[x])}) IN
    IF n = NoName THEN [S |-> S, name |-> NoName]
    ELSE [S |-> setTimeout([S EXCEPT !.browsers[n].leaseTime = t], n, t), name |-> n]

getBrowserWithId(S, id) == First({x \in DOMAIN S.browsers : HasId(S.browsers[x], id)})

getBrowserWithSessionId(S, sid) ==
    First({x \in DOMAIN S.browsers : S.browsers[x].sessionID = sid})

setInternals(S, n, sid, opt) ==
    [S EXCEPT !.browsers[n] = [@ EXCEPT !.sessionID = sid,
                                        !.clientID = opt.clientID,
                                        !.webhook = opt.callbackURL,
                                        !.fingerprintID = opt.fingerprintID,
                                        !.reportKey = opt.reportKey,
                                        !.sessionUUID = opt.sessionUUID]]

\* updateBrowser: the record becomes {...record, ...updates}.  updates is a
\* Partial<Browser>: any subset of the fields with new values.  Nothing in
\* the service calls it; it is applied to the states the service reaches.
updateBrowser(S, n, updates) ==
    IF n \notin DOMAIN S.browsers THEN S
    ELSE [S EXCEPT !.browsers[n] =
             [f \in DOMAIN @ |-> IF f \in DOMAIN updates THEN updates[f] ELSE @[f]]]

\* Some values of updates.
Updates ==
    {[lastUsed |-> 0], [leaseTime |-> 1, sessionID |-> "s1"]}
        \cup {[index |-> i] : i \in Names}
        \cup {[ports |-> Ports(i)] : i \in Names}

\* ------------------------------------------------------ request handlers
ReqTask(kind, n, t) == [kind |-> kind, name |-> n, t |-> t]

Serving == initPc.st = "done" /\ killAllPc # "done" /\ events < MaxEvents

\* getBrowser up to its first await of I/O.
getBrowser(S, browserID, sid, t, isExtending, opt) ==
    LET found == IF browserID # NoId THEN getBrowserWithId(S, browserID)
                 ELSE getBrowserWithSessionId(S, sid)
        r == reserveBrowser(S, t)
    IN  IF found # NoName
        THEN [S EXCEPT !.reqs = @ (+) One(ReqTask("extend", found, t))]
        ELSE IF isExtending THEN Returned(S, "getBrowser", NoName, "NOT_FOUND")
        ELSE IF r.name = NoName THEN Returned(S, "reserveBrowser", NoName, "undefined")
        ELSE Returned([setInternals(r.S, r.name, sid, opt)
                          EXCEPT !.reqs = @ (+) One(ReqTask("new", r.name, t))],
                      "reserveBrowser", r.name, "browser")

GetBrowser(browserID, sid, t, isExtending, opt) ==
    /\ Serving
    /\ now + t <= MaxNow
    /\ Set(getBrowser([Cur EXCEPT !.events = @ + 1], browserID, sid, t, isExtending, opt))

\* The launch and the connection test of a new lease have ended.
ReqVerify(task, ok) ==
    /\ task.kind = "new"
    /\ ok => cont[task.name]
    /\ LET S0 == [Cur EXCEPT !.reqs = @ (-) One(task)] IN
       Set(IF ok THEN Returned(S0, "getBrowser", task.name, "ok")
           ELSE killBrowserCall(S0, task.name, 0, "req"))

\* The POST /action/lease of an extension has ended.
ReqExtend(task, ok) ==
    /\ task.kind = "extend"
    /\ ok => cont[task.name] /\ now + task.t <= MaxNow
    /\ LET S0 == [Cur EXCEPT !.reqs = @ (-) One(task)] IN
       Set(IF ok
           THEN Returned(setTimeout(resetTimeout(S0, task.name), task.name, task.t),
                         "extend", task.name, "ok")
           ELSE Returned(S0, "extend", task.name, "UNKNOWN_ERROR"))

FreeBrowser(browserID) ==
    /\ Serving
    /\ LET S0 == [Cur EXCEPT !.events = @ + 1]
           n == getBrowserWithId(S0, browserID)
       IN  Set(IF n = NoName THEN Returned(S0, "freeBrowser", NoName, "NOT_FOUND")
               ELSE IF S0.browsers[n].leaseTime # -1
                    THEN Returned(killBrowserCall(S0, n, 0, "free"), "freeBrowser", n, "release")
               ELSE Returned(S0, "freeBrowser", n, "ok"))

Next ==
    \/ \E ok \in BOOLEAN : InitProbe(ok)
    \/ InitBegin
    \/ \E listing \in Listings, suffix \in [Names -> Suffixes] : InitDiscover(listing, suffix)
    \/ InitKillDone
    \/ \E task \in BagToSet(inits) : \E ok \in BOOLEAN : RunDone(task, ok)
    \/ \E task \in BagToSet(inits) : RunRetry(task)
    \/ \E n \in Names : RecreateFire(n)
    \/ \E n \in Names, which \in {"stored", "leaked"} : SocketConnect(n, which)
    \/ \E n \in Names, which \in {"stored", "leaked"} : SocketDisconnect(n, which)
    \/ \E n \in Names, which \in {"stored", "leaked"} : AgentSetState(n, which)
    \/ \E n \in Names, which \in {"stored", "leaked"} : AgentUnknown(n, which)
    \/ \E n \in Names, which \in {"stored", "leaked"}, labelName \in LabelNames,
          labelValue \in Ids : AgentSetLabel(n, which, labelName, labelValue)
    \/ \E n \in Names, which \in {"stored", "leaked"}, param \in LabelNames,
          value \in Ids : AgentSetParam(n, which, param, value)
    \/ \E n \in Names, which \in {"stored", "leaked"}, isError \in BOOLEAN :
          AgentDeleted(n, which, isError)
    \/ \E n \in Names : ContainerDies(n)
    \/ Tick
    \/ \E task \in BagToSet(kills) : \E res \in {"ok", "err", "nosuch"} : KillCmdExec(task, res)
    \/ \E task \in BagToSet(kills) : KillResume(task)
    \/ \E task \in BagToSet(kills) : KillWait2(task)
    \/ \E task \in BagToSet(kills) : KillRetry(task)
    \/ \E n \in Names : TimerFire(n)
    \/ \E n \in Names : \E d \in BagToSet(orphans[n]) : OrphanFire(n, d)
    \/ KillAllStart
    \/ \E n \in Names : ReInit(n)
    \/ \E browserID \in Ids \cup {NoId}, sid \in SessionIDs, t \in LeaseTimes,
          isExtending \in BOOLEAN, opt \in Optionals :
          GetBrowser(browserID, sid, t, isExtending, opt)
    \/ \E task \in BagToSet(reqs) : \E ok \in BOOLEAN : ReqVerify(task, ok)
    \/ \E task \in BagToSet(reqs) : \E ok \in BOOLEAN : ReqExtend(task, ok)
    \/ \E browserID \in Ids : FreeBrowser(browserID)

Spec == Init /\ [][Next]_vars

\* ------------------------------------------- reserve/release cycles
\* The pool serving clients that reserve and free browsers again and again,
\* one request at a time, with no lease running out and no shutdown.  These
\* requests are not counted in events, so the cycles can go on for ever.
\* A request arrives when the work of the one before has ended.
Quiet ==
    /\ initPc.st = "done" /\ killAllPc = "idle"
    /\ reqs = EmptyBag /\ kills = EmptyBag /\ inits = EmptyBag
    /\ \A n \in Names :
          /\ recreate[n] = 0
          /\ sockets[n] # "dropped" /\ leaked[n].dropped = 0

\* The requests of these clients: with and without a fingerprintID.
CycleOptionals == {Optional("c", "w"), WithoutFingerprint(Optional("c", "w"))}

ReserveAgain(sid, t, opt) ==
    /\ Quiet
    /\ getBrowserWithSessionId(Cur, sid) = NoName
    /\ Set(getBrowser(Cur, NoId, sid, t, FALSE, opt))

FreeAgain(browserID) ==
    /\ Quiet
    /\ LET n == getBrowserWithId(Cur, browserID) IN
       /\ n # NoName
       /\ browsers[n].leaseTime # -1
       /\ Set(Returned(killBrowserCall(Cur, n, 0, "free"), "freeBrowser", n, "release"))

\* A stop, restart or run command fails although nothing is wrong with the
\* container's name; such failures are not counted in events either, so a
\* command can fail on every attempt.
StopFails(task) ==
    /\ task.pc = "cmd"
    /\ cont[task.name]
    /\ Set(killCmdExec(Cur, task, "err"))

RunFails(task) ==
    /\ task.pc = "run"
    /\ CanConnect(task.name)
    /\ ~cont[task.name]
    /\ Set(initContainerResume(Cur, task, FALSE))

\* The steps the service, the container runtime and the agents take by
\* themselves.
CycleInternal ==
    \/ \E ok \in BOOLEAN : InitProbe(ok)
    \/ InitBegin
    \/ \E listing \in Listings, suffix \in [Names -> Suffixes] : InitDiscover(listing, suffix)
    \/ InitKillDone
    \/ \E task \in BagToSet(inits) : RunDone(task, ~cont[task.name])
    \/ \E task \in BagToSet(inits) : RunRetry(task)
    \/ \E n \in Names : RecreateFire(n)
    \/ \E n \in Names, which \in {"stored", "leaked"} : SocketConnect(n, which)
    \/ \E n \in Names, which \in {"stored", "leaked"} : SocketDisconnect(n, which)
    \/ \E n \in Names, which \in {"stored", "leaked"} : AgentSetState(n, which)
    \/ \E task \in BagToSet(kills) : \E res \in {"ok", "nosuch"} : KillCmdExec(task, res)
    \/ \E task \in BagToSet(kills) : KillResume(task)
    \/ \E task \in BagToSet(kills) : KillWait2(task)
    \/ \E task \in BagToSet(reqs) : ReqVerify(task, TRUE)

NextCycles ==
    \/ CycleInternal
    \/ \E sid \in SessionIDs, opt \in CycleOptionals : ReserveAgain(sid, MaxLease, opt)
    \/ \E n \in Names, which \in {"stored", "leaked"}, isError \in BOOLEAN :
          AgentDeleted(n, which, isError)
    \/ \E browserID \in Ids : FreeAgain(browserID)
    \/ \E task \in BagToSet(kills) : StopFails(task)
    \/ \E task \in BagToSet(kills) : KillRetry(task)
    \/ \E task \in BagToSet(inits) : RunFails(task)

\* Pending callbacks run, commands complete and agents answer: the internal
\* steps are not postponed for ever.
SpecCycles == Init /\ [][NextCycles]_vars /\ WF_vars(CycleInternal)

\* ================================================================ claims
KillsOn(n) == {task \in BagToSet(kills) : task.name = n}

ReadySlots == {n \in DOMAIN browsers : browsers[n].isUp /\ browsers[n].leaseTime = -1}

\* C1: reserveBrowser returns only a slot that was Ready when it was
\* called: a slot that is marked up and has no lease recorded.  It never
\* returns a slot that is not up, and never one that already carries a lease.
C1_ReserveReturnsReady ==
    [][(ret'.op = "reserveBrowser" /\ ret'.res = "browser")
         => ret'.slot \in ReadySlots]_vars

C1_Witness ==
    /\ ret.op = "reserveBrowser" /\ ret.res = "browser"
    /\ browsers[ret.slot].leaseTime # -1
    /\ \E n \in DOMAIN browsers : ~browsers[n].isUp

PortSet(b) == {b.ports.app, b.ports.browser, b.ports.vnc}

\* C11: in every reachable state, in both modes, no external port (app,
\* debugger, vnc) of one slot equals an external port of another slot.
C11_PortsDisjoint ==
    \A i, j \in DOMAIN browsers :
        i # j => PortSet(browsers[i]) \cap PortSet(browsers[j]) = {}

\* C12: for each node:deleted event received for a slot, a POST is sent to
\* the webhook exactly when the slot's webhook, reportKey and sessionUUID are
\* all non-empty, whatever its other fields; the POST carries the slot's
\* clientID, sessionUUID and reportKey and the event's isError.
C12_WebhookEligibility ==
    [][ret'.op = "node:deleted"
         => LET b == browsers[ret'.slot] IN
            /\ ret'.post.sent
                 <=> (b.webhook # "" /\ b.reportKey # "" /\ b.sessionUUID # "")
            /\ ret'.post.sent
                 => /\ ret'.post.url = b.webhook
                    /\ ret'.post.clientID = b.clientID
                    /\ ret'.post.sessionUUID = b.sessionUUID
                    /\ ret'.post.reportKey = b.reportKey]_vars

\* This step issues a stop (a restart under MANAGE_ONLY) for slot n.
KillIssued(n) ==
    \E task \in BagToSet(kills') :
        /\ task.name = n /\ task.pc = "cmd"
        /\ CopiesIn(task, kills') > CopiesIn(task, kills)

\* C13: each release trigger on a leased slot - freeBrowser, the lease
\* timer, a node:deleted event - starts the release of the slot: the timer
\* is cancelled and a stop (a restart under MANAGE_ONLY) is issued.
C13_TriggersRelease ==
    [][(/\ \/ ret'.op = "timer"
           \/ ret'.op = "node:deleted"
           \/ (ret'.op = "freeBrowser" /\ ret'.res = "release")
        /\ browsers[ret'.slot].leaseTime # -1)
         => (KillIssued(ret'.slot) /\ ~timeoutObjs'[ret'.slot].armed)]_vars

\* This step issues a container run command for slot n.
RunIssuedFor(n) ==
    \E task \in BagToSet(inits') :
        /\ task.name = n /\ task.pc = "run"
        /\ CopiesIn(task, inits') > CopiesIn(task, inits)

\* killBrowser issues `restart` under MANAGE_ONLY and `stop` otherwise.
StopIssued == ~manageOnly /\ \E n \in Names : KillIssued(n)

\* C14: with MANAGE_ONLY set, no operation ever issues a container run
\* command or a stop command.
C14_ManageOnlyNoRunNoStop ==
    [][manageOnly => (~StopIssued /\ \A n \in Names : ~RunIssuedFor(n))]_vars

\* C15: with MANAGE_ONLY set, when killBrowser(name) returns: createdAt is
\* unchanged, session and lease are cleared, and the sockets map holds an
\* open Agent Link for the slot, the one opened after the restart.
C15_ManageOnlyKill ==
    [][(manageOnly /\ ret'.op = "killBrowser" /\ ret'.res = "ok")
         => LET n == ret'.slot IN
            /\ browsers'[n].createdAt = browsers[n].createdAt
            /\ browsers'[n].sessionID = "" /\ browsers'[n].leaseTime = -1
            /\ sockets'[n] # "none"]_vars

\* This step ends a run command of init() in failure for slot n, and it
\* was the last attempt.
RunExhausted(n) ==
    \E task \in BagToSet(inits) :
        /\ task.name = n /\ task.caller = "init" /\ task.pc = "run"
        /\ task.attempts + 1 = MaxRetries
        /\ CopiesIn(task, inits') < CopiesIn(task, inits)
        /\ ~cont'[n]

\* C16: during full-lifecycle init, exhausting the run attempts of slot 0
\* makes init fail; exhausting them for a later slot does not: init goes on
\* with the next slot or completes, and the failed slot is not up.
C16_OnlyFirstSlotFatal ==
    [][\A n \in Names :
          RunExhausted(n)
              => /\ n = 0 => initPc'.st = "failed"
                 /\ n # 0 => /\ initPc'.st \in {"kill", "done"}
                             /\ ~browsers'[n].isUp]_vars

\* The killBrowser calls of killAllExisting in progress after this step.
KillAllTasks == {task \in BagToSet(kills') : task.caller = "killAll"}

\* C18: killAllExisting sets the is-killing flag before any of its stops,
\* has at most one release in progress at a time, and when it finishes no
\* slot holds a lease, an armed timer or a socket in the sockets map.
C18_ShutdownReleasesAll ==
    [][/\ KillAllTasks # {}
            => /\ isKilling'
               /\ Cardinality(KillAllTasks) = 1
               /\ \A task \in KillAllTasks : CopiesIn(task, kills') = 1
       /\ (killAllPc # "done" /\ killAllPc' = "done")
            => \A n \in DOMAIN browsers' :
                   /\ browsers'[n].leaseTime = -1
                   /\ ~timeoutObjs'[n].armed
                   /\ sockets'[n] = "none"]_vars

\* C19: init probes `docker info` only while fewer than 50 probes have
\* failed, a probe that succeeds ends the probing for good, and the 50th
\* failure makes init raise with no slot record, no socket and no container
\* command of its own; nothing follows a raised init.
C19_ProbeAtMostFifty ==
    [][/\ ret'.op = "info"
            => /\ initPc.st = "probe" /\ initPc.i < 50
               /\ ret'.res = "ok" => initPc'.st = "begin"
               /\ (ret'.res # "ok" /\ initPc.i + 1 < 50)
                    => initPc' = [st |-> "probe", i |-> initPc.i + 1]
               /\ (ret'.res # "ok" /\ initPc.i + 1 = 50)
                    => initPc' = [st |-> "unavailable", i |-> 50]
               /\ UNCHANGED <<browsers, sockets, inits, kills, cont>>
       /\ initPc.st # "probe" => initPc'.st # "probe"
       /\ initPc.st = "unavailable"
            => /\ initPc' = initPc
               /\ DOMAIN browsers' = {}
               /\ inits' = EmptyBag /\ kills' = EmptyBag
               /\ \A n \in Names : sockets'[n] = "none"]_vars

\* init has just raised after the 50th failed probe.
C19_Witness ==
    /\ initPc = [st |-> "unavailable", i |-> 50]
    /\ ret.op = "info" /\ ret.res = "raised"

\* C20: a slot that was not up is up after a step only when the step is
\* the delivery of node:setState on a socket of that slot; a record is not
\* up when it is created.
C20_UpOnlyBySetState ==
    [][\A n \in DOMAIN browsers' :
          (browsers'[n].isUp /\ (n \in DOMAIN browsers => ~browsers[n].isUp))
             => /\ n \in DOMAIN browsers
                /\ \E which \in {"stored", "leaked"} :
                      /\ SockIn(Cur, n, which, "connected")
                      /\ browsers' = setStateHandler(Cur, n).browsers]_vars

\* A slot is up with the id and ip of node:setState, on a connected socket.
C20_Witness ==
    \E n \in DOMAIN browsers :
        /\ browsers[n].isUp /\ HasId(browsers[n], IdOf(n))
        /\ sockets[n] = "connected"

\* C21: an agent event of an unknown name, and a node:setLabel, node:setParam
\* or node:deleted event delivered for a slot that is absent or has had no
\* node:setState since it was last (re)created, change neither the slot
\* table nor the timers nor the sockets map.
C21_IgnoredEventsChangeNothing ==
    [][\A n \in Names, which \in {"stored", "leaked"} :
          (/\ n \in DOMAIN browsers => ~browsers[n].isUp
           /\ \/ AgentUnknown(n, which)
              \/ \E k \in LabelNames, v \in Ids :
                    AgentSetLabel(n, which, k, v) \/ AgentSetParam(n, which, k, v)
              \/ \E isError \in BOOLEAN : AgentDeleted(n, which, isError))
             => UNCHANGED <<browsers, timeoutObjs, sockets>>]_vars

\* The session fields of a record are all empty.
NoSession(b) ==
    /\ b.sessionID = "" /\ b.clientID = "" /\ b.fingerprintID = ""
    /\ b.webhook = "" /\ b.sessionUUID = "" /\ b.reportKey = ""
    /\ b.leaseTime = -1

\* C22: a slot that is not up (no node:setState since its container was
\* launched, or its socket has disconnected) and has no release in progress
\* has empty session fields and no label id.
C22_NotUpHasNoSession ==
    \A n \in DOMAIN browsers :
        (~browsers[n].isUp /\ ~browsers[n].isRemoving /\ KillsOn(n) = {})
            => /\ NoSession(browsers[n])
               /\ "id" \notin DOMAIN browsers[n].labels

RECURSIVE BagSum(_, _)
\* The number of copies in bag B of the elements of set T.
BagSum(B, T) ==
    IF T = {} THEN 0
    ELSE LET x == CHOOSE y \in T : TRUE
         IN  CopiesIn(x, B) + BagSum(B, T \ {x})

\* The container commands of slot n that were issued and have not completed:
\* the stop or restart of a killBrowser call, the run of an initContainer call.
StopsInFlight(n) ==
    BagSum(kills, {task \in BagToSet(kills) : task.name = n /\ task.pc = "cmd"})
RunsInFlight(n) ==
    BagSum(inits, {task \in BagToSet(inits) : task.name = n /\ task.pc = "run"})

\* C23: at most one container command is in flight per slot.
C23_OneCommandPerSlot ==
    \A n \in Names : StopsInFlight(n) + RunsInFlight(n) <= 1

\* The lease timers of slot n that can still fire: the one in _timeoutObjs
\* and those armed earlier, overwritten there and never cleared.
PendingTimers(n) ==
    (IF timeoutObjs[n].armed THEN 1 ELSE 0) + BagCardinality(orphans[n])

\* C24: at most one lease timer is pending per slot, and resetTimeout on a
\* slot with no timer in _timeoutObjs changes nothing.
C24_OneTimerPerSlot ==
    /\ \A n \in Names : PendingTimers(n) <= 1
    /\ \A n \in Names :
          ~timeoutObjs[n].armed => resetTimeout(Cur, n) = Cur

\* Slot n is Leased: up, a lease recorded, no release begun.
Leased(n) ==
    /\ browsers[n].isUp /\ browsers[n].leaseTime # -1
    /\ ~browsers[n].isRemoving /\ KillsOn(n) = {}

\* C25: the extend path of getBrowser arms a timer only on a slot that is
\* Leased when the timer is armed.
C25_ExtendOnlyLeased ==
    [][(ret'.op = "extend" /\ ret'.res = "ok") => Leased(ret'.slot)]_vars

\* This step ends the extension request task with success.
ExtendDone(task) ==
    /\ task.kind = "extend" /\ task.name = ret'.slot
    /\ CopiesIn(task, reqs') < CopiesIn(task, reqs)

\* C26: an extension that succeeds leaves one timer for the slot, due the
\* requested number of minutes from now, none of the slot's earlier timers
\* newly left pending, and changes no field of any record other than the
\* slot's lastUsed.
C26_ExtendIsTimerReset ==
    [][(ret'.op = "extend" /\ ret'.res = "ok")
         => LET n == ret'.slot IN
            /\ \E task \in BagToSet(reqs) :
                  /\ ExtendDone(task)
                  /\ timeoutObjs'[n] = [armed |-> TRUE, due |-> now + task.t]
            /\ orphans' = orphans
            /\ \A m \in Names \ {n} : timeoutObjs'[m] = timeoutObjs[m]
            /\ browsers' = [browsers EXCEPT ![n].lastUsed = browsers'[n].lastUsed]
            /\ sockets' = sockets]_vars

\* A Leased slot with a session has just been extended.
C26_Witness ==
    /\ ret.op = "extend" /\ ret.res = "ok"
    /\ browsers[ret.slot].leaseTime # -1 /\ browsers[ret.slot].sessionID # ""
    /\ browsers[ret.slot].isUp
    /\ timeoutObjs[ret.slot].armed

\* C27: when reserves keep being served, no slot stays Ready for ever from
\* some point on: a slot that remains Ready is eventually the one returned.
C27_NoStarvation ==
    []<>(ret.op = "reserveBrowser" /\ ret.res = "browser")
        => \A n \in Names : ~<>[](n \in ReadySlots)

\* This step takes task out of kills (one copy of it).
KillTaskLeaves(task) == CopiesIn(task, kills') < CopiesIn(task, kills)

\* This step puts task into kills.
KillTaskEnters(task) == CopiesIn(task, kills') > CopiesIn(task, kills)

InitTaskLeaves(task) == CopiesIn(task, inits') < CopiesIn(task, inits)
InitTaskEnters(task) == CopiesIn(task, inits') > CopiesIn(task, inits)

\* C29: an initContainer call issues its run command with 0 to
\* maxRetries - 1 failed attempts behind it; it issues the command again
\* only after the wait that follows a failed attempt; after a successful run
\* and after the last failed attempt allowed the call issues no further
\* command; and the call waits for nothing but its command and its sleep.
C29_RunAttemptsBounded ==
    [][/\ \A task \in BagToSet(inits') :
             /\ task.attempts < MaxRetries
             /\ (task.pc = "run" /\ task.attempts > 0 /\ InitTaskEnters(task))
                  => InitTaskLeaves([task EXCEPT !.pc = "wait"])
             /\ (task.pc = "wait" /\ InitTaskEnters(task))
                  => /\ task.attempts > 0
                     /\ InitTaskLeaves([task EXCEPT !.pc = "run", !.attempts = @ - 1])
                     /\ cont'[task.name] = cont[task.name]
       /\ \A task \in BagToSet(inits) :
             (task.pc = "run" /\ InitTaskLeaves(task))
                  => \/ /\ ~cont[task.name] /\ cont'[task.name]
                        /\ \A other \in BagToSet(inits') :
                              InitTaskEnters(other) => other.name # task.name
                     \/ /\ cont'[task.name] = cont[task.name]
                        /\ IF task.attempts + 1 < MaxRetries
                           THEN InitTaskEnters([task EXCEPT !.pc = "wait",
                                                            !.attempts = @ + 1])
                           ELSE \A other \in BagToSet(inits') :
                                   InitTaskEnters(other) => other.name # task.name
       /\ \A task \in BagToSet(inits) :
             \/ /\ task.pc = "run"
                /\ CanConnect(task.name) => ENABLED (\E ok \in BOOLEAN : RunDone(task, ok))
             \/ task.pc = "wait" /\ ENABLED RunRetry(task)]_vars

\* After a failed attempt and the wait, the last run allowed is in flight.
C29_Witness ==
    \E task \in BagToSet(inits) :
        /\ task.pc = "run" /\ task.attempts = MaxRetries - 1
        /\ ~cont[task.name]

\* This step opens a socket for slot n.
LinkOpened(n) ==
    LiveSockets([leaked |-> leaked', sockets |-> sockets'], n) > LiveSockets(Cur, n)

\* C30: in full-lifecycle mode a socket is opened for a slot only in the
\* step in which a run command for that slot has succeeded.
C30_LinkOnlyAfterRun ==
    [][\A n \in Names :
          (~manageOnly /\ LinkOpened(n)) => (~cont[n] /\ cont'[n])]_vars

\* C31: on a slot that is up, for every key k and values v1, v2, setLabel
\* {k, v1} then setLabel {k, v2} leave labels[k] = v2 and every other label
\* as it was, and setParam {k, v} leaves the state that setLabel {k, v}
\* leaves.
C31_SetLabelTwice ==
    \A n \in DOMAIN browsers : \A k \in LabelNames : \A v1, v2 \in Ids :
        browsers[n].isUp
            => LET S2 == setLabelHandler(setLabelHandler(Cur, n, k, v1), n, k, v2)
                   after == S2.browsers[n].labels
               IN  /\ GetLabel(after, k) = v2
                   /\ \A x \in (DOMAIN after \cup DOMAIN browsers[n].labels) \ {k} :
                         GetLabel(after, x) = GetLabel(browsers[n].labels, x)
                   /\ S2.browsers = [browsers EXCEPT ![n].labels = after]
                   /\ setParamHandler(Cur, n, k, v1) = setLabelHandler(Cur, n, k, v1)

\* C32: once init has ended, no step changes the index or the ports of a
\* record or the set of names the table is keyed by, and no updateBrowser
\* call would.
C32_NameIndexPortsFixed ==
    [][(initPc.st = "done")
         => /\ DOMAIN browsers' = DOMAIN browsers
            /\ \A n \in DOMAIN browsers :
                  /\ browsers'[n].index = browsers[n].index
                  /\ browsers'[n].ports = browsers[n].ports
                  /\ \A updates \in Updates :
                        LET b == updateBrowser(Cur, n, updates).browsers[n]
                        IN  b.index = browsers[n].index /\ b.ports = browsers[n].ports]_vars

\* More endings of container names: digits below the base port, and the
\* port one past the last slot's.
WideSuffixes == Suffixes \cup {7, BaseBrowserPort + NumBrowsers}

\* The table of state S has at most numBrowsers records, each with an index
\* in [0, numBrowsers).
TableBounded(S) ==
    /\ Cardinality(DOMAIN S.browsers) <= NumBrowsers
    /\ \A n \in DOMAIN S.browsers : S.browsers[n].index \in 0 .. NumBrowsers - 1

\* C33: the table is bounded so in every reachable state, and initManageMode
\* leaves it so whatever digits the names of the listed containers end in.
C33_TableBounded ==
    /\ TableBounded(Cur)
    /\ initPc.st = "discover"
          => \A listing \in Listings, suffix \in [Names -> WideSuffixes] :
                TableBounded(discover(Cur, listing, suffix))

\* C34: the sessionData of a webhook POST is the sessionData of the
\* node:deleted event ("data" in the model) when the slot has a
\* fingerprintID, and the empty string when it has none.
C34_SessionDataByFingerprint ==
    (ret.op = "node:deleted" /\ ret.post.sent)
        => ret.post.sessionData =
              (IF browsers[ret.slot].fingerprintID # "" THEN "data" ELSE "")

\* A POST was sent for a slot leased without a fingerprintID.
C34_Witness ==
    /\ ret.op = "node:deleted" /\ ret.post.sent
    /\ browsers[ret.slot].fingerprintID = ""
    /\ ret.post.sessionData = ""

\* C35: a lease of a slot lasts from the reserveBrowser call that returned
\* the slot to the completion of a release of the slot.  reserveBrowser
\* returns only a slot with no lease outstanding and the slot has one
\* afterwards; a lease ends only in the step in which a killBrowser call on
\* the slot returns; so between the two no reserveBrowser call returns the
\* slot, and at most N leases are outstanding.
C35_OneLeasePerSlot ==
    [][/\ \A n \in DOMAIN browsers \cap DOMAIN browsers' :
            /\ (ret'.op = "reserveBrowser" /\ ret'.res = "browser" /\ ret'.slot = n)
                 => browsers[n].leaseTime = -1 /\ browsers'[n].leaseTime # -1
            /\ (browsers[n].leaseTime # -1 /\ browsers'[n].leaseTime = -1)
                 => (ret'.op = "killBrowser" /\ ret'.slot = n /\ ret'.res = "ok")
       /\ Cardinality({n \in DOMAIN browsers' : browsers'[n].leaseTime # -1})
              <= NumBrowsers]_vars

\* A slot that was released and re-created is reserved again.
C35_Witness ==
    /\ ~manageOnly
    /\ ret.op = "reserveBrowser" /\ ret.res = "browser"
    /\ browsers[ret.slot].createdAt > 0

\* C36: in every reachable state each slot has at most one live Agent Link:
\* one socket, connected, connecting or reconnecting, with its handlers
\* attached, whether or not it is the one stored in the sockets map.
C36_OneLinkPerSlot ==
    \A n \in Names : LiveSockets(Cur, n) <= 1

\* C37: a slot's isRemoving is true only while a killBrowser call on the
\* slot is in progress, and it is false when a killBrowser call on the
\* slot has just finished, whether it returned or raised.
C37_RemovingOnlyDuringRelease ==
    /\ \A n \in DOMAIN browsers : browsers[n].isRemoving => KillsOn(n) # {}
    /\ (ret.op = "killBrowser" /\ ret.slot \in DOMAIN browsers)
          => ~browsers[ret.slot].isRemoving

\* C38: when the killBrowser call that getBrowser makes after a failed
\* launch or a failed connection test has finished, by returning or by
\* raising, the reserved slot holds no lease, no session fields and no
\* armed timer.
C38_FailedRequestReleasesSlot ==
    (ret.op = "killBrowser" /\ ret.by = "req")
        => /\ browsers[ret.slot].leaseTime = -1
           /\ NoSession(browsers[ret.slot])
           /\ ~timeoutObjs[ret.slot].armed /\ orphans[ret.slot] = EmptyBag

\* A browserID that no slot carries as its id label, such as the id of a
\* browser that has been released since.
StaleId == 99

SessionOnOneSlot(S) ==
    \A n, m \in DOMAIN S.browsers :
        (S.browsers[n].sessionID # "" /\ S.browsers[n].sessionID = S.browsers[m].sessionID)
            => n = m

\* C39: at any time at most one slot carries a given non-empty sessionID,
\* also after any further getBrowser request: a request with the sessionID
\* of a slot finds that slot and does not reserve another one.
C39_SessionOnOneSlot ==
    /\ SessionOnOneSlot(Cur)
    /\ initPc.st = "done"
          => \A browserID \in Ids \cup {NoId, StaleId}, sid \in SessionIDs :
                SessionOnOneSlot(getBrowser(Cur, browserID, sid, 1, FALSE,
                                            Optional("c", "w")))

\* A reInitContainerWithCustomResolution call on n is between its stop and
\* its run: its killBrowser has not returned yet.
ReInitKilling(n) ==
    \E task \in BagToSet(kills) : task.name = n /\ task.caller = "reinit"

\* C17: between the stop and the run of a
\* reInitContainerWithCustomResolution(name, R) no other run command is
\* issued for the slot, and when the call returns the slot's container runs
\* with XVFB_RESOLUTION = R.
C17_ReInitAtomic ==
    [][/\ \A n \in Names :
            (ReInitKilling(n) /\ RunIssuedFor(n))
                => \E task \in BagToSet(inits') :
                       /\ task.name = n /\ task.pc = "run" /\ task.caller = "reinit"
                       /\ CopiesIn(task, inits') > CopiesIn(task, inits)
       /\ (ret'.op = "reInitContainerWithCustomResolution" /\ ret'.res = "ok")
            => (cont'[ret'.slot] /\ xvfb'[ret'.slot] = CustomResolution)]_vars

\* A timer callback for n is still to come.
HasTimer(n) == timeoutObjs[n].armed \/ orphans[n] # EmptyBag

\* C2: for every slot on which no release is in progress, a lease is
\* recorded exactly when a lease timer is armed for it: never a recorded
\* lease without an armed timer, never an armed timer without a lease, also
\* after a disconnect, a failed release or an extend.
C2_LeaseIffTimer ==
    \A n \in DOMAIN browsers :
        KillsOn(n) = {} => ((browsers[n].leaseTime # -1) <=> HasTimer(n))

\* This step issues a container run command.
RunIssued ==
    \E task \in BagToSet(inits') :
        task.pc = "run" /\ CopiesIn(task, inits') > CopiesIn(task, inits)

\* C3: once killAllExisting has set the is-killing flag, no container run
\* command is issued for any slot.
C3_NoRunAfterShutdown == [][isKilling => ~RunIssued]_vars

\* C4: full-lifecycle mode: when the release started by a lease timer has
\* returned without raising and no other release of the slot is in progress,
\* the slot's lease and session are cleared (so that the re-created
\* container makes the slot Ready again).
C4_ExpiryClearsLease ==
    (/\ ~manageOnly
     /\ ret.op = "killBrowser" /\ ret.by = "timer" /\ ret.res = "ok"
     /\ KillsOn(ret.slot) = {})
        => (browsers[ret.slot].leaseTime = -1 /\ browsers[ret.slot].sessionID = "")

\* C5: full-lifecycle mode, pool not shutting down: whatever the state of a
\* slot was when its container died, when the slot comes up again (and no
\* release of it is in progress) it is Ready: it carries no lease.
C5_UpAgainIsReady ==
    [][\A n \in DOMAIN browsers :
          (/\ ~manageOnly /\ ~isKilling
           /\ ~browsers[n].isUp /\ browsers'[n].isUp
           /\ KillsOn(n) = {})
             => browsers'[n].leaseTime = -1]_vars

\* C6: while a release of a slot is in flight, reserveBrowser does not
\* return that slot, whether it was Leased or Ready when the release began.
C6_ReleaseBlocksReserve ==
    [][(ret'.op = "reserveBrowser" /\ ret'.res = "browser")
         => KillsOn(ret'.slot) = {}]_vars

\* C7: full-lifecycle mode: whenever killBrowser on an existing slot
\* returns without raising, the slot's session fields and labels are empty,
\* its lease and lastUsed are unset and its socket is out of the sockets map.
C7_KillReturnsCleared ==
    (~manageOnly /\ ret.op = "killBrowser" /\ ret.res = "ok")
        => LET b == browsers[ret.slot] IN
           /\ b.sessionID = "" /\ b.clientID = "" /\ b.webhook = ""
           /\ b.fingerprintID = "" /\ b.reportKey = "" /\ b.sessionUUID = ""
           /\ b.labels = EmptyLabels
           /\ b.leaseTime = -1 /\ b.lastUsed = -1
           /\ sockets[ret.slot] = "none"

\* One killBrowser(n) call run from its first line to its return with
\* nothing else happening in between; the command fails only when there is
\* no container of that name.
KillRun(S, n) ==
    LET t1 == KillTask(n, 0, "cmd", "none", "seq")
        S1 == killBrowserCall(S, n, 0, "seq")
        res == IF S1.cont[n] THEN "ok" ELSE "nosuch"
        t2 == [t1 EXCEPT !.pc = "resume", !.res = res]
        S2 == killBrowserResume(killCmdExec(S1, t1, res), t2)
        t3 == [t2 EXCEPT !.pc = "wait2"]
    IN  IF BagIn(t3, S2.kills) THEN killWait2(S2, t3) ELSE S2

\* What the claim compares: the records, the timers map, the sockets map.
KillView(S) == <<S.browsers, S.timeoutObjs, S.sockets>>

\* C8: for any slot of the initialised pool, in any reachable state with no
\* release in progress, two killBrowser(name) calls in a row leave the slot records (isRemoving
\* included), the timers map and the sockets map as one call leaves them.
C8_KillTwiceIsKillOnce ==
    \A n \in DOMAIN browsers :
        (initPc.st = "done" /\ kills = EmptyBag)
            => KillView(KillRun(KillRun(Cur, n), n)) = KillView(KillRun(Cur, n))

\* C9: a successful reserveBrowser(t) records the lease, sets lastUsed to
\* now and stores a timer due t minutes later; and while that lease and its
\* timer stand, no other timer starts the release of the slot.
C9_ReserveTimer ==
    [][/\ (ret'.op = "reserveBrowser" /\ ret'.res = "browser")
           => /\ browsers'[ret'.slot].leaseTime \in LeaseTimes
              /\ browsers'[ret'.slot].lastUsed = now'
              /\ timeoutObjs'[ret'.slot] =
                    [armed |-> TRUE, due |-> now' + browsers'[ret'.slot].leaseTime]
       /\ (/\ ret'.op = "timer"
           /\ browsers[ret'.slot].leaseTime # -1
           /\ timeoutObjs[ret'.slot].armed)
           => /\ ret'.res = "stored"
              /\ timeoutObjs[ret'.slot].due <= now]_vars

====
